---- MODULE Spec2Model ----
(***************************************************************************)
(* Weighted training of a normalising flow (train, get_dataloaders,        *)
(* loss_fn of the weighted-training notebook).                             *)
(*                                                                         *)
(* Floating-point values are modelled as exact extended rationals n/d with *)
(* d >= 0: d > 0 is a finite value in lowest terms, 1/0 is +inf, -1/0 is   *)
(* -inf and 0/0 is NaN.  Rounding and signed zeros are not modelled.       *)
(* Points are scalars (the notebook uses rows of a 2-d array).             *)
(***************************************************************************)
EXTENDS Integers, Sequences, FiniteSets

\* ------------------------------------------------------------ bounds
MaxN == 4
MaxEpochs == 2
MaxLen == 4

PointVals == {0, 1}
WeightVals == {0, 1}
BatchSizes == {1, 2}
ParamVals == {0, 1}
LogProbVals == {-2, -1, 0}
LossWeightVals == {0, 1, 2}

\* one longer sample set, whose validation partition takes two batches of one
LongSamples == <<0, 1, 1, 0, 1>>

\* ------------------------------------------------------------ floats
Abs(z) == IF z < 0 THEN -z ELSE z

Sign(z) == IF z < 0 THEN -1 ELSE IF z > 0 THEN 1 ELSE 0

RECURSIVE GCD(_, _)
GCD(a, b) == IF b = 0 THEN a ELSE GCD(b, a % b)

\* The float with value n/d (d may be 0 or negative before normalisation).
Norm(n, d) ==
    IF d = 0 THEN [n |-> Sign(n), d |-> 0]
    ELSE LET g == GCD(Abs(n), Abs(d))
             s == Sign(d)
         IN [n |-> (s * n) \div g, d |-> (s * d) \div g]

Fin(z) == [n |-> z, d |-> 1]

\* np.nan, np.inf
NaN == [n |-> 0, d |-> 0]
Inf == [n |-> 1, d |-> 0]

IsNaN(a) == a.d = 0 /\ a.n = 0
IsInf(a) == a.d = 0 /\ a.n # 0
IsFinite(a) == a.d > 0

Neg(a) == [n |-> -a.n, d |-> a.d]

FAbs(a) == [n |-> Abs(a.n), d |-> a.d]

Add(a, b) ==
    IF IsInf(a) /\ IsInf(b)
    THEN (IF a.n = b.n THEN a ELSE NaN)
    ELSE Norm(a.n * b.d + b.n * a.d, a.d * b.d)

Sub(a, b) == Add(a, Neg(b))

Mul(a, b) == Norm(a.n * b.n, a.d * b.d)

\* IEEE division: x/0 is +-inf for x # 0 and NaN for x = 0; inf/inf is NaN.
Div(a, b) ==
    IF IsNaN(a) \/ IsNaN(b) THEN NaN
    ELSE IF IsInf(a) THEN (IF IsInf(b) THEN NaN
                           ELSE [n |-> a.n * (IF b.n < 0 THEN -1 ELSE 1), d |-> 0])
    ELSE IF IsInf(b) THEN Fin(0)
    ELSE Norm(a.n * b.d, a.d * b.n)

\* a < b on floats: every comparison with NaN is false.
Less(a, b) ==
    IF IsNaN(a) \/ IsNaN(b) THEN FALSE
    ELSE IF IsInf(a) /\ IsInf(b) THEN a.n < b.n
    ELSE a.n * b.d < b.n * a.d

\* ------------------------------------------------------------ tensors
\* torch.sum of a 1-d tensor
RECURSIVE Sum(_)
Sum(t) == IF t = <<>> THEN Fin(0) ELSE Add(Sum(SubSeq(t, 1, Len(t) - 1)), t[Len(t)])

\* elementwise product of two 1-d tensors of the same length
Prod(s, t) == [j \in 1..Len(s) |-> Mul(s[j], t[j])]

\* astype(np.float32) / torch.from_numpy of an integer-valued array
ToTensor(a) == [j \in 1..Len(a) |-> Fin(a[j])]

\* loss_fn with the denominator taken as the batch length (mutant)
loss_fn_mean(log_prob, weights) ==
    Div(Neg(Sum(Prod(log_prob, weights))), Fin(Len(weights)))

\* loss_fn without the leading minus (mutant)
loss_fn_unsigned(log_prob, weights) ==
    Div(Sum(Prod(log_prob, weights)), Sum(weights))

loss_fn(log_prob, weights) ==
    Div(Neg(Sum(Prod(log_prob, weights))), Sum(weights))

\* ------------------------------------------------------------ data
\* default test_size 0.25: n_test = ceil(0.25 * n), n_train = n - n_test
NTest(n) == (n + 3) \div 4
NTrain(n) == n - NTest(n)

\* the length check accepting weights longer than the samples (mutant)
SplitRaisesShort(s, w) ==
    \/ Len(s) > Len(w)
    \/ NTrain(Len(s)) = 0

\* train_test_split(samples, weights, shuffle=False) raises ValueError when
\* the arrays differ in length or the training part would be empty.
SplitRaises(s, w) ==
    \/ Len(s) # Len(w)
    \/ NTrain(Len(s)) = 0

Reverse(a) == [j \in 1..Len(a) |-> a[Len(a) + 1 - j]]

\* get_dataloaders with the training partition in another order (mutant)
get_dataloaders_shuffled(s, w, bs) ==
    LET n == Len(s)
        nt == NTrain(n)
    IN [train |-> [x |-> ToTensor(Reverse(SubSeq(s, 1, nt))),
                   w |-> ToTensor(Reverse(SubSeq(w, 1, nt))),
                   batch_size |-> bs],
        val   |-> [x |-> ToTensor(SubSeq(s, nt + 1, n)),
                   w |-> ToTensor(SubSeq(w, nt + 1, n)),
                   batch_size |-> bs]]

\* get_dataloaders: the two DataLoaders as (dataset tensors, batch_size)
get_dataloaders(s, w, bs) ==
    LET n == Len(s)
        nt == NTrain(n)
    IN [train |-> [x |-> ToTensor(SubSeq(s, 1, nt)),
                   w |-> ToTensor(SubSeq(w, 1, nt)),
                   batch_size |-> bs],
        val   |-> [x |-> ToTensor(SubSeq(s, nt + 1, n)),
                   w |-> ToTensor(SubSeq(w, nt + 1, n)),
                   batch_size |-> bs]]

\* the number of samples taken for the number of batches (mutant)
LoaderLenSamples(ld) == Len(ld.x)

\* len(DataLoader) with drop_last=False
LoaderLen(ld) == (Len(ld.x) + ld.batch_size - 1) \div ld.batch_size

\* a batch that runs one item over the batch size (mutant)
NextBatchLong(ld, p) ==
    LET q == IF p + ld.batch_size + 1 < Len(ld.x) THEN p + ld.batch_size + 1
             ELSE Len(ld.x)
    IN [x |-> SubSeq(ld.x, p + 1, q), w |-> SubSeq(ld.w, p + 1, q)]

\* the batch a sequential, unshuffled DataLoader yields at position p
NextBatch(ld, p) ==
    LET q == IF p + ld.batch_size < Len(ld.x) THEN p + ld.batch_size ELSE Len(ld.x)
    IN [x |-> SubSeq(ld.x, p + 1, q), w |-> SubSeq(ld.w, p + 1, q)]

NoLoader == [x |-> <<>>, w |-> <<>>, batch_size |-> 1]
NoBatch == [x |-> <<>>, w |-> <<>>]

\* ------------------------------------------------------------ model
\* The flow is an opaque collaborator; it is stood for by the one-parameter
\* density log_prob(x) = -|x - theta| (the spec's trivial model at theta = 0).
\* NaN parameters give NaN log-densities.
log_prob(obj, x) == [j \in 1..Len(x) |-> Neg(FAbs(Sub(x[j], obj.params)))]

\* optimiser.step() after _loss.backward(): a non-finite loss (or NaN
\* parameters) gives NaN gradients and so NaN parameters; otherwise Adam
\* moves the parameters to some finite value, or the step is numerically
\* unstable and leaves NaN.
StepOutcomes(obj, l) ==
    IF IsFinite(l) /\ IsFinite(obj.params)
    THEN {Fin(p) : p \in ParamVals} \cup {NaN}
    ELSE {NaN}

\* the flow object is at address 0; None is no reference
FlowRef == 0
None == -1

\* copy.deepcopy(flow) binding an alias instead of a copy (mutant)
DeepCopyAlias(h, ref) == [heap |-> h, ref |-> ref]

\* copy.deepcopy(flow): a fresh object with the same contents
DeepCopy(h, ref) ==
    LET a == CHOOSE z \in 1..(Cardinality(DOMAIN h) + 1) : z \notin DOMAIN h
    IN [heap |-> [z \in DOMAIN h \cup {a} |-> IF z = a THEN h[ref] ELSE h[z]],
        ref |-> a]

\* rebinding best_flow drops the last reference to the old snapshot
Release(h, old, new) ==
    IF old = None \/ old = FlowRef \/ old = new THEN h
    ELSE [z \in DOMAIN h \ {old} |-> h[z]]

\* ------------------------------------------------------------ state
VARIABLES
    pc,             \* position of train: call, loop, train, val, returned, raised
    samples,        \* argument: the points
    weights,        \* argument: the importance weights
    epochs,         \* argument
    batch_size,     \* keyword argument handed to get_dataloaders
    train_loader,   \* DataLoader over the training partition
    val_loader,     \* DataLoader over the validation partition
    loss,           \* dict(train=[...], val=[...])
    best_val_loss,
    best_epoch,
    best_flow,      \* None or the address of the snapshot
    heap,           \* address -> flow object [params, training]
    optimiser,      \* Adam state: the number of steps taken
    i,              \* the epoch index of the for loop
    pos,            \* position of the running DataLoader iterator
    yielded,        \* the batches the running iterator has yielded
    batch,          \* x, w of the batch in hand
    _loss,          \* loss of the batch in hand
    batch_losses,   \* history: the values _loss took in the training pass
                    \* and in the validation pass of the running epoch
    after_train,    \* history: per epoch, the parameters and the optimiser
                    \* step count when the training pass ended
    train_loss,
    val_loss,
    ret,            \* what train returned
    lf_pc,          \* loss_fn called on its own: position
    lf_log_prob,    \* loss_fn called on its own: arguments and result
    lf_weights,
    lf_ret,
    h5_file,        \* the HDF5 file: the rows of 'time_series' and 'targets'
    datasets,       \* process -> its H5Dataset object [_h5_gen]
    generators,     \* the generator objects made by _get_generator
    handles,        \* the h5py.File handles opened so far
    requests,       \* history: the dataset calls made and what they returned
    loader,         \* the DataLoader over the H5Dataset
    workers         \* the worker processes of the running loader iterator

args == <<samples, weights, epochs, batch_size>>
loaders == <<train_loader, val_loader>>
best == <<best_val_loss, best_epoch, best_flow>>
iter == <<pos, yielded, batch, _loss>>
lf == <<lf_pc, lf_log_prob, lf_weights, lf_ret>>
trace == <<batch_losses, after_train>>
h5 == <<h5_file, datasets, generators, handles, requests, loader, workers>>
training == <<pc, args, loaders, loss, best, heap, optimiser, i, iter,
              train_loss, val_loss, ret, lf, trace>>
vars == <<pc, args, loaders, loss, best, heap, optimiser, i, iter,
          train_loss, val_loss, ret, lf, trace, h5>>

\* the heap holding the flow handed to train, in training mode; its
\* parameter starts at 0 (the model is symmetric under x -> 1 - x)
NewFlow == [z \in {FlowRef} |-> [params |-> Fin(0), training |-> TRUE]]

\* sequences over S of length lo..hi
SeqsOf(S, lo, hi) == UNION {[1..n -> S] : n \in lo..hi}

NoRet == [best_flow |-> None, loss |-> [train |-> <<>>, val |-> <<>>]]

\* the locals of train and the flow handed to it, before the call
Locals ==
    /\ pc = "call"
    /\ train_loader = NoLoader
    /\ val_loader = NoLoader
    /\ loss = [train |-> <<>>, val |-> <<>>]
    /\ best_val_loss = Inf
    /\ best_epoch = NaN
    /\ best_flow = None
    /\ optimiser = [step |-> 0]
    /\ i = 0
    /\ pos = 0
    /\ yielded = <<>>
    /\ batch = NoBatch
    /\ _loss = Fin(0)
    /\ batch_losses = [train |-> <<>>, val |-> <<>>]
    /\ after_train = <<>>
    /\ train_loss = Fin(0)
    /\ val_loss = Fin(0)
    /\ ret = NoRet

\* no HDF5 file, dataset or loader has been made
NoH5 ==
    /\ h5_file = [time_series |-> <<>>, targets |-> <<>>]
    /\ datasets = <<>>
    /\ generators = <<>>
    /\ handles = <<>>
    /\ requests = <<>>
    /\ loader = [batch_size |-> 1, state |-> "none"]
    /\ workers = <<>>

NoLossCall ==
    /\ lf_pc = "idle"
    /\ lf_log_prob = <<>>
    /\ lf_weights = <<>>
    /\ lf_ret = Fin(0)

Init ==
    /\ \/ /\ samples \in SeqsOf(PointVals, 0, MaxN)
          /\ \E m \in {Len(samples) - 1, Len(samples), Len(samples) + 1}
                       \cap 0..MaxN :
                weights \in [1..m -> WeightVals]
       \/ /\ samples = LongSamples
          /\ weights \in [1..Len(LongSamples) -> WeightVals]
    /\ epochs \in 0..MaxEpochs
    /\ batch_size \in BatchSizes
    /\ heap = NewFlow
    /\ Locals
    /\ NoLossCall
    /\ NoH5

\* ------------------------------------------------------------ train
\* the comparison accepting ties (mutant)
ImprovesOrTies(v, b) == Less(v, b) \/ v = b

\* the comparison taking every comparable loss, so the last one (mutant)
ImprovesOnLast(v, b) == ~IsNaN(v)

\* val_loss < best_val_loss
Improves(v, b) == Less(v, b)

\* the sentinel taken as 0 (mutant)
BestInitZero == Fin(0)

\* best_val_loss = np.inf
BestInit == Inf

\* the accumulation skipping non-finite batch losses (mutant)
AccumulateFinite(acc, l) == IF IsFinite(l) THEN Add(acc, l) ELSE acc

\* train_loss += _loss.item(), val_loss += _loss
Accumulate(acc, l) == Add(acc, l)

\* the history entry dropped when it is not finite (mutant)
RecordFinite(hist, v) == IF IsFinite(v) THEN Append(hist, v) ELSE hist

\* loss["train"].append(...), loss["val"].append(...)
Record(hist, v) == Append(hist, v)

\* the loop running one epoch too many (mutant)
RangeHasNextInclusive(j, n) == j <= n

\* for i in range(epochs): is there a next index
RangeHasNext(j, n) == j < n

\* where train can take a step: the conditions of the loop heads
AtCall == pc = "call"
AtEpochStart == pc = "loop" /\ RangeHasNext(i, epochs)
AtReturn == pc = "loop" /\ ~RangeHasNext(i, epochs)
AtTrainBatch == pc = "train" /\ pos < Len(train_loader.x)
AtTrainEnd == pc = "train" /\ pos = Len(train_loader.x)
AtValBatch == pc = "val" /\ pos < Len(val_loader.x)
AtEpochEnd == pc = "val" /\ pos = Len(val_loader.x)

\* train(...) up to the loop: flow.to(device), get_dataloaders, the locals
\* and the optimiser; a ValueError of train_test_split leaves train at once.
Call ==
    /\ AtCall
    /\ IF SplitRaises(samples, weights)
       THEN /\ pc' = "raised"
            /\ UNCHANGED <<loaders, loss, best, optimiser, i>>
       ELSE LET ld == get_dataloaders(samples, weights, batch_size)
            IN /\ pc' = "loop"
               /\ train_loader' = ld.train
               /\ val_loader' = ld.val
               /\ loss' = [train |-> <<>>, val |-> <<>>]
               /\ best_val_loss' = BestInit
               /\ best_epoch' = NaN
               /\ best_flow' = None
               /\ optimiser' = [step |-> 0]
               /\ i' = 0
    /\ UNCHANGED <<args, heap, iter, train_loss, val_loss, ret, lf, trace, h5>>

\* the head of an epoch: flow.train(), train_loss = 0.0, a new iterator
EpochStart ==
    /\ AtEpochStart
    /\ pc' = "train"
    /\ heap' = [heap EXCEPT ![FlowRef].training = TRUE]
    /\ train_loss' = Fin(0)
    /\ pos' = 0
    /\ yielded' = <<>>
    /\ batch_losses' = [batch_losses EXCEPT !.train = <<>>]
    /\ UNCHANGED <<args, loaders, loss, best, optimiser, i, batch, _loss,
                   val_loss, ret, lf, after_train, h5>>

\* one training batch: forward, loss, backward, optimiser step, accumulate
TrainBatch ==
    /\ AtTrainBatch
    /\ LET b == NextBatch(train_loader, pos)
           l == loss_fn(log_prob(heap[FlowRef], b.x), b.w)
       IN /\ batch' = b
          /\ pos' = pos + Len(b.x)
          /\ yielded' = Append(yielded, b)
          /\ _loss' = l
          /\ \E p \in StepOutcomes(heap[FlowRef], l) :
                heap' = [heap EXCEPT ![FlowRef].params = p]
          /\ optimiser' = [step |-> optimiser.step + 1]
          /\ train_loss' = Accumulate(train_loss, l)
          /\ batch_losses' = [batch_losses EXCEPT !.train = Append(@, l)]
    /\ UNCHANGED <<pc, args, loaders, loss, best, i, val_loss, ret, lf,
                   after_train, h5>>

\* the training iterator is exhausted: record the mean, flow.eval(),
\* val_loss = 0.0, a new iterator
TrainEnd ==
    /\ AtTrainEnd
    /\ pc' = "val"
    /\ loss' = [loss EXCEPT !.train =
                   Record(@, Div(train_loss, Fin(LoaderLen(train_loader))))]
    /\ heap' = [heap EXCEPT ![FlowRef].training = FALSE]
    /\ val_loss' = Fin(0)
    /\ pos' = 0
    /\ yielded' = <<>>
    /\ batch_losses' = [batch_losses EXCEPT !.val = <<>>]
    /\ after_train' = Append(after_train,
                             [params |-> heap[FlowRef].params,
                              step |-> optimiser.step])
    /\ UNCHANGED <<args, loaders, best, optimiser, i, batch, _loss,
                   train_loss, ret, lf, h5>>

\* a validation batch that also takes an optimiser step (mutant)
ValBatchStepping ==
    /\ AtValBatch
    /\ LET b == NextBatch(val_loader, pos)
           l == loss_fn(log_prob(heap[FlowRef], b.x), b.w)
       IN /\ batch' = b
          /\ pos' = pos + Len(b.x)
          /\ yielded' = Append(yielded, b)
          /\ _loss' = l
          /\ \E p \in StepOutcomes(heap[FlowRef], l) :
                heap' = [heap EXCEPT ![FlowRef].params = p]
          /\ optimiser' = [step |-> optimiser.step + 1]
          /\ val_loss' = Accumulate(val_loss, l)
          /\ batch_losses' = [batch_losses EXCEPT !.val = Append(@, l)]
    /\ UNCHANGED <<pc, args, loaders, loss, best, i, train_loss, ret, lf,
                   after_train, h5>>

\* one validation batch under torch.no_grad()
ValBatch ==
    /\ AtValBatch
    /\ LET b == NextBatch(val_loader, pos)
           l == loss_fn(log_prob(heap[FlowRef], b.x), b.w)
       IN /\ batch' = b
          /\ pos' = pos + Len(b.x)
          /\ yielded' = Append(yielded, b)
          /\ _loss' = l
          /\ val_loss' = Accumulate(val_loss, l)
          /\ batch_losses' = [batch_losses EXCEPT !.val = Append(@, l)]
    /\ UNCHANGED <<pc, args, loaders, loss, best, heap, optimiser, i,
                   train_loss, ret, lf, after_train, h5>>

\* the validation iterator is exhausted: the mean, the comparison with the
\* best so far, the snapshot, the history entry
EpochEnd ==
    /\ AtEpochEnd
    /\ LET v == Div(val_loss, Fin(LoaderLen(val_loader)))
       IN /\ val_loss' = v
          /\ IF Improves(v, best_val_loss)
             THEN LET c == DeepCopy(heap, FlowRef)
                  IN /\ best_val_loss' = v
                     /\ best_epoch' = Fin(i)
                     /\ best_flow' = c.ref
                     /\ heap' = Release(c.heap, best_flow, c.ref)
             ELSE UNCHANGED <<best, heap>>
          /\ loss' = [loss EXCEPT !.val = Record(@, v)]
    /\ i' = i + 1
    /\ pc' = "loop"
    /\ UNCHANGED <<args, loaders, optimiser, iter, train_loss, ret, lf,
                   trace, h5>>

\* range(epochs) is exhausted: return best_flow, loss
Return ==
    /\ AtReturn
    /\ pc' = "returned"
    /\ ret' = [best_flow |-> best_flow, loss |-> loss]
    /\ UNCHANGED <<args, loaders, loss, best, heap, optimiser, i, iter,
                   train_loss, val_loss, lf, trace, h5>>

Next ==
    \/ Call
    \/ EpochStart
    \/ TrainBatch
    \/ TrainEnd
    \/ ValBatch
    \/ EpochEnd
    \/ Return

Spec == Init /\ [][Next]_vars

\* ------------------------------------------------------------ loss_fn alone
InitLoss ==
    /\ samples = <<>>
    /\ weights = <<>>
    /\ epochs = 0
    /\ batch_size = 1
    /\ heap = NewFlow
    /\ Locals
    /\ lf_pc = "idle"
    /\ \E n \in 1..MaxLen :
          /\ lf_log_prob \in [1..n -> {Fin(z) : z \in LogProbVals}]
          /\ lf_weights \in [1..n -> {Fin(z) : z \in LossWeightVals}]
    /\ lf_ret = Fin(0)
    /\ NoH5

\* loss_fn(log_prob, weights) called on two tensors of equal length
LossFnCall ==
    /\ lf_pc = "idle"
    /\ lf_pc' = "done"
    /\ lf_ret' = loss_fn(lf_log_prob, lf_weights)
    /\ UNCHANGED <<pc, args, loaders, loss, best, heap, optimiser, i, iter,
                   train_loss, val_loss, ret, lf_log_prob, lf_weights,
                   trace, h5>>

NextLoss == LossFnCall

SpecLoss == InitLoss /\ [][NextLoss]_vars

\* ------------------------------------------------------------ H5Dataset
MaxRows == 3
MaxCalls == 3

\* the process the notebook runs in
Main == 0

\* the file the notebook writes: n rows under 'time_series' and under
\* 'targets'; every row is told from the others by its content
NewFile(n) ==
    [time_series |-> [r \in 1..n |-> 10 + r],
     targets     |-> [r \in 1..n |-> 20 + r]]

\* H5Dataset.__init__: the path and the keys are kept, _h5_gen = None
NewDataset == [_h5_gen |-> None]

\* the objects the dataset operations work on
World ==
    [datasets |-> datasets, generators |-> generators, handles |-> handles]

\* what a call gives back: its value, or the exception it raised
Returns(v) == [raised |-> "", value |-> v]
Raises(e) == [raised |-> e, value |-> <<>>]

\* an exception leaves the with block of the generator: the file is closed
\* and the generator is finished
ExitWith(W, g) ==
    [W EXCEPT !.handles[W.generators[g].record].open = FALSE,
              !.generators[g].pc = "finished"]

\* calling the generator function makes the generator and runs none of it
_get_generator(W, pid) ==
    [W   |-> [W EXCEPT !.generators =
                 Append(@, [pc |-> "created", index |-> None,
                            record |-> None, pid |-> pid])],
     ret |-> Len(W.generators) + 1]

\* generator.send(index) on the body of _get_generator: a generator not yet
\* started takes only None and runs to the first yield, opening the file; a
\* suspended one binds index, reads the two rows and yields them, and an
\* index h5py refuses raises inside the with block; a finished one raises
\* StopIteration.
GenSend(W, g, index, f) ==
    LET gen == W.generators[g]
    IN CASE gen.pc = "created" ->
              IF index = None
              THEN [W   |-> [W EXCEPT
                               !.handles = Append(@, [open |-> TRUE,
                                                      by |-> "_get_generator",
                                                      pid |-> gen.pid]),
                               !.generators[g].record = Len(W.handles) + 1,
                               !.generators[g].pc = "primed"],
                    ret |-> Returns(<<>>)]
              ELSE [W |-> W, ret |-> Raises("TypeError")]
         [] gen.pc \in {"primed", "yielded"} ->
              LET W1 == [W EXCEPT !.generators[g].index = index]
              IN IF index \in 0..(Len(f.time_series) - 1)
                 THEN [W   |-> [W1 EXCEPT !.generators[g].pc = "yielded"],
                       ret |-> Returns(<<f.time_series[index + 1],
                                         f.targets[index + 1]>>)]
                 ELSE [W   |-> ExitWith(W1, g),
                       ret |-> Raises(IF index = None THEN "TypeError"
                                                      ELSE "IndexError")]
         [] OTHER -> [W |-> W, ret |-> Raises("StopIteration")]

\* next(generator) is send(None)
GenNext(W, g, f) == GenSend(W, g, None, f)

\* if self._h5_gen is None: self._h5_gen = self._get_generator()
EnsureGenerator(W, d, pid) ==
    IF W.datasets[d]._h5_gen = None
    THEN LET m == _get_generator(W, pid)
         IN [m.W EXCEPT !.datasets[d]._h5_gen = m.ret]
    ELSE W

\* __getitem__ sending to a generator it has not started (mutant)
getitem_unprimed(W, d, index, f, pid) ==
    LET c == EnsureGenerator(W, d, pid)
    IN GenSend(c, c.datasets[d]._h5_gen, index, f)

\* H5Dataset.__getitem__(index)
__getitem__(W, d, index, f, pid) ==
    LET c == EnsureGenerator(W, d, pid)
        primed == IF W.datasets[d]._h5_gen = None
                  THEN GenNext(c, c.datasets[d]._h5_gen, f)
                  ELSE [W |-> c, ret |-> Returns(<<>>)]
    IN IF primed.ret.raised # ""
       THEN primed
       ELSE GenSend(primed.W, primed.W.datasets[d]._h5_gen, index, f)

\* H5Dataset.__len__(): a handle of its own, closed on leaving the with
__len__(W, f, pid) ==
    [W   |-> [W EXCEPT !.handles =
                 Append(@, [open |-> FALSE, by |-> "__len__", pid |-> pid])],
     ret |-> Returns(<<Len(f.time_series)>>)]

\* train and loss_fn are not running
NoTraining ==
    /\ samples = <<>>
    /\ weights = <<>>
    /\ epochs = 0
    /\ batch_size = 1
    /\ heap = NewFlow
    /\ Locals
    /\ NoLossCall

\* the file is written and H5Dataset(...) has been constructed
InitH5 ==
    /\ NoTraining
    /\ \E n \in 1..MaxRows : h5_file = NewFile(n)
    /\ datasets = [z \in {Main} |-> NewDataset]
    /\ generators = <<>>
    /\ handles = <<>>
    /\ requests = <<>>
    /\ loader = [batch_size |-> 1, state |-> "none"]
    /\ workers = <<>>

Request(op, pid, index, r) ==
    [op |-> op, pid |-> pid, index |-> index, ret |-> r]

Adopt(W) ==
    /\ datasets' = W.datasets
    /\ generators' = W.generators
    /\ handles' = W.handles

\* dataset[index] for a row of the file or the index one past the last row
GetItemCall ==
    /\ Len(requests) < MaxCalls
    /\ \E index \in 0..Len(h5_file.time_series) :
          LET r == __getitem__(World, Main, index, h5_file, Main)
          IN /\ Adopt(r.W)
             /\ requests' = Append(requests,
                                   Request("__getitem__", Main, index, r.ret))
    /\ UNCHANGED <<training, h5_file, loader, workers>>

\* len(dataset)
LenCall ==
    /\ Len(requests) < MaxCalls
    /\ LET r == __len__(World, h5_file, Main)
       IN /\ Adopt(r.W)
          /\ requests' = Append(requests,
                                Request("__len__", Main, None, r.ret))
    /\ UNCHANGED <<training, h5_file, loader, workers>>

NextH5 ==
    \/ GetItemCall
    \/ LenCall

SpecH5 == InitH5 /\ [][NextH5]_vars

\* ------------------------------------------------------------ DataLoader
NumWorkers == 2
LoaderBatchSizes == {1, 2}

Workers == 1..NumWorkers

\* the workers taken as threads of the main process, all on its dataset
\* object (mutant)
WorkerDatasetShared(w) == Main

\* every worker is a process with a copy of the dataset object of its own
WorkerDataset(w) == w

\* the indices worker w is sent: the sampler's order is cut into batches of
\* bs, and batch k (counted from 0) goes to worker k % num_workers
WorkerIndices(order, bs, w) ==
    LET at == [j \in 1..Len(order) |-> j]
        mine == SelectSeq(at, LAMBDA j :
                              ((j - 1) \div bs) % NumWorkers = w - 1)
    IN [k \in 1..Len(mine) |-> order[mine[k]]]

\* the orders a RandomSampler can draw over n items, as sequences of 1..n
Orders(n) == {o \in [1..n -> 1..n] : \A j, k \in 1..n : o[j] = o[k] => j = k}

\* the file is written and DataLoader(H5Dataset(...), batch_size, shuffle=True,
\* num_workers=2) has been constructed
InitLoader ==
    /\ NoTraining
    /\ \E n \in 1..MaxRows : h5_file = NewFile(n)
    /\ datasets = [z \in {Main} |-> NewDataset]
    /\ generators = <<>>
    /\ handles = <<>>
    /\ requests = <<>>
    /\ \E b \in LoaderBatchSizes : loader = [batch_size |-> b, state |-> "built"]
    /\ workers = <<>>

\* the len(dataset) calls made so far
LenCalls == SelectSeq(requests, LAMBDA q : q.op = "__len__")

\* len(loader) in the main process asks the sampler, which asks len(dataset)
LoaderLenCall ==
    /\ loader.state # "none"
    /\ Len(LenCalls) < MaxCalls
    /\ LET r == __len__(World, h5_file, Main)
       IN /\ Adopt(r.W)
          /\ requests' = Append(requests,
                                Request("__len__", Main, None, r.ret))
    /\ UNCHANGED <<training, h5_file, loader, workers>>

\* enumerate(loader): the sampler asks len(dataset) and draws an order, the
\* worker processes start, each with a copy of the dataset object, and the
\* batches of indices are dealt to them in turn
IterStart ==
    /\ loader.state = "built"
    /\ \E order \in Orders(Len(h5_file.time_series)) :
          LET r == __len__(World, h5_file, Main)
              indices == [j \in 1..Len(h5_file.time_series) |-> order[j] - 1]
          IN /\ datasets' = [z \in {Main} \cup Workers |->
                                r.W.datasets[Main]]
             /\ generators' = r.W.generators
             /\ handles' = r.W.handles
             /\ requests' = Append(requests,
                                   Request("__len__", Main, None, r.ret))
             /\ workers' = [w \in Workers |->
                               [pc |-> "idle",
                                queue |-> WorkerIndices(indices,
                                                        loader.batch_size, w),
                                index |-> None,
                                dataset |-> WorkerDataset(w)]]
    /\ loader' = [loader EXCEPT !.state = "iterating"]
    /\ UNCHANGED <<training, h5_file>>

\* worker w takes its next index and enters __getitem__: the test of
\* _h5_gen and, when it is None, the assignment of a new generator
WorkerCheck(w) ==
    /\ loader.state = "iterating"
    /\ workers[w].pc = "idle"
    /\ workers[w].queue # <<>>
    /\ LET d == workers[w].dataset
       IN /\ Adopt(EnsureGenerator(World, d, w))
          /\ workers' = [workers EXCEPT
                           ![w].pc = IF datasets[d]._h5_gen = None
                                     THEN "next" ELSE "send",
                           ![w].index = Head(workers[w].queue),
                           ![w].queue = Tail(workers[w].queue)]
    /\ UNCHANGED <<training, h5_file, requests, loader>>

\* worker w in __getitem__: next(self._h5_gen)
WorkerNext(w) ==
    /\ loader.state = "iterating"
    /\ workers[w].pc = "next"
    /\ LET d == workers[w].dataset
           r == GenNext(World, datasets[d]._h5_gen, h5_file)
       IN /\ Adopt(r.W)
          /\ IF r.ret.raised # ""
             THEN /\ requests' = Append(requests,
                                        Request("__getitem__", w,
                                                workers[w].index, r.ret))
                  /\ workers' = [workers EXCEPT ![w].pc = "idle"]
             ELSE /\ workers' = [workers EXCEPT ![w].pc = "send"]
                  /\ UNCHANGED requests
    /\ UNCHANGED <<training, h5_file, loader>>

\* worker w in __getitem__: return self._h5_gen.send(index)
WorkerSend(w) ==
    /\ loader.state = "iterating"
    /\ workers[w].pc = "send"
    /\ LET d == workers[w].dataset
           r == GenSend(World, datasets[d]._h5_gen, workers[w].index, h5_file)
       IN /\ Adopt(r.W)
          /\ requests' = Append(requests,
                                Request("__getitem__", w,
                                        workers[w].index, r.ret))
          /\ workers' = [workers EXCEPT ![w].pc = "idle"]
    /\ UNCHANGED <<training, h5_file, loader>>

\* every batch has been fetched: the iterator is exhausted and the worker
\* processes exit, which closes the files they hold
IterEnd ==
    /\ loader.state = "iterating"
    /\ \A w \in Workers : workers[w].pc = "idle" /\ workers[w].queue = <<>>
    /\ loader' = [loader EXCEPT !.state = "done"]
    /\ handles' = [k \in 1..Len(handles) |->
                     IF handles[k].pid \in Workers
                     THEN [handles[k] EXCEPT !.open = FALSE]
                     ELSE handles[k]]
    /\ workers' = <<>>
    /\ UNCHANGED <<training, h5_file, datasets, generators, requests>>

NextLoader ==
    \/ LoaderLenCall
    \/ IterStart
    \/ \E w \in Workers : WorkerCheck(w)
    \/ \E w \in Workers : WorkerNext(w)
    \/ \E w \in Workers : WorkerSend(w)
    \/ IterEnd

SpecLoader == InitLoader /\ [][NextLoader]_vars

\* ------------------------------------------------------------ properties
Range(h) == {h[j] : j \in 1..Len(h)}

IsPrefix(s, t) == Len(s) <= Len(t) /\ SubSeq(t, 1, Len(s)) = s

\* train stands between two epochs, or has returned
EpochBoundary == pc \in {"loop", "returned"}

RECURSIVE Concat(_)
Concat(ss) == IF ss = <<>> THEN <<>> ELSE Concat(SubSeq(ss, 1, Len(ss) - 1)) \o ss[Len(ss)]

Min(a, b) == IF a < b THEN a ELSE b

\* ceil(m / b) as the least c with c * b >= m
CeilDiv(m, b) == CHOOSE c \in 0..m : c * b >= m /\ \A e \in 0..m : e * b >= m => c <= e

\* a DataLoader iterator has just yielded a batch
BatchStep == pc \in {"train", "val"} /\ pc' = pc /\ pos' > pos

Comparable(h) == {j \in 1..Len(h) : ~IsNaN(h[j])}

BestIsMinOfComparable ==
    EpochBoundary =>
        IF Comparable(loss.val) = {}
        THEN best_val_loss = Inf /\ best_flow = None
        ELSE /\ \E j \in Comparable(loss.val) : best_val_loss = loss.val[j]
             /\ \A j \in Comparable(loss.val) : ~Less(loss.val[j], best_val_loss)

ReplacedOnlyOnStrictImprovement ==
    /\ (best' # best) =>
          /\ pc = "val" /\ pc' = "loop"
          /\ Less(val_loss', best_val_loss)
          /\ best_val_loss' = val_loss'
          /\ best_epoch' = Fin(i)
          /\ best_flow' \notin {None, best_flow}
    /\ (pc = "val" /\ pc' = "loop" /\ val_loss' = best_val_loss) => best' = best

SnapshotHeld ==
    /\ best_flow # FlowRef
    /\ DOMAIN heap = {FlowRef} \cup (IF best_flow = None THEN {} ELSE {best_flow})

SnapshotFrame ==
    /\ (best_flow # None /\ best_flow' = best_flow) =>
          heap'[best_flow] = heap[best_flow]
    /\ (best_flow' # best_flow) =>
          /\ heap'[best_flow'] = heap[FlowRef]
          /\ heap'[FlowRef] = heap[FlowRef]

\* C3: the best snapshot is an object of its own, equal to the live model
\* when taken and left unchanged by every later step of train (optimiser
\* steps and mode switches of the live model included); apart from the live
\* model the heap holds the current snapshot and nothing else.
C3_SnapshotIndependent ==
    [](SnapshotHeld) /\ [][SnapshotFrame]_vars

\* a snapshot is held while the live model trains on with other parameters
C3_Witness ==
    /\ pc = "train"
    /\ pos > 0
    /\ best_flow # None
    /\ IsFinite(heap[FlowRef].params)
    /\ heap[best_flow].params # heap[FlowRef].params

HistoryLengths ==
    /\ pc \in {"loop", "train"} => Len(loss.train) = i /\ Len(loss.val) = i
    /\ pc = "val" => Len(loss.train) = i + 1 /\ Len(loss.val) = i
    /\ pc = "returned" =>
          /\ Len(ret.loss.train) = epochs
          /\ Len(ret.loss.val) = epochs
          /\ ret.loss = loss

\* C4: when train returns, both histories have exactly `epochs` entries;
\* between epochs both have as many entries as epochs have completed; the
\* histories only ever grow at the end, whatever the batch losses were.
C4_HistoryLengths ==
    /\ [](HistoryLengths)
    /\ [][IsPrefix(loss.train, loss'.train) /\ IsPrefix(loss.val, loss'.val)]_vars

\* two epochs returned with a NaN entry in the training history
C4_Witness ==
    /\ pc = "returned"
    /\ epochs = 2
    /\ IsFinite(ret.loss.train[1])
    /\ IsNaN(ret.loss.train[2])

NonFiniteLossContinues ==
    /\ (BatchStep /\ ~IsFinite(_loss')) =>
          /\ pc' = pc
          /\ pc = "train" => /\ ~IsFinite(train_loss')
                              /\ IsNaN(heap'[FlowRef].params)
                              /\ optimiser'.step = optimiser.step + 1
          /\ pc = "val" => ~IsFinite(val_loss')
    /\ (pc = "train" /\ pc' = "val" /\ ~IsFinite(train_loss)) =>
          ~IsFinite(loss'.train[Len(loss'.train)])
    /\ (pc = "val" /\ pc' = "loop" /\ ~IsFinite(val_loss)) =>
          ~IsFinite(loss'.val[Len(loss'.val)])
    /\ pc' = "raised" => pc \in {"call", "raised"}

Remaining ==
    LET perEpoch == 3 + Len(samples)
        after == (epochs - i - 1) * perEpoch + 1
    IN CASE pc = "call" -> 2 + epochs * perEpoch
         [] pc = "loop" -> 1 + (epochs - i) * perEpoch
         [] pc = "train" -> after + 2 + (Len(train_loader.x) - pos)
                                  + Len(val_loader.x)
         [] pc = "val" -> after + 1 + (Len(val_loader.x) - pos)
         [] OTHER -> 0

\* some step of train can be taken
CanStep ==
    \/ AtCall
    \/ AtEpochStart \/ AtReturn
    \/ AtTrainBatch \/ AtTrainEnd
    \/ AtValBatch \/ AtEpochEnd

EpochsRun ==
    /\ pc \in {"loop", "train", "val", "returned"} =>
          /\ i \in 0..epochs
          /\ pc \in {"train", "val"} => i < epochs
          /\ optimiser.step = i * LoaderLen(train_loader)
                + (IF pc = "train" THEN Len(yielded) ELSE 0)
                + (IF pc = "val" THEN LoaderLen(train_loader) ELSE 0)
    /\ pc = "returned" =>
          /\ i = epochs
          /\ optimiser.step = epochs * LoaderLen(train_loader)
    /\ pc \notin {"returned", "raised"} => CanStep

\* C6: the epoch index only ever advances by one, train returns only after
\* exactly `epochs` epochs, having taken epochs * len(train_loader)
\* optimiser steps; train can always take its next step until it has
\* returned or raised, and every step brings the end nearer, so it ends.
C6_RunsEpochsThenReturns ==
    /\ [](EpochsRun)
    /\ [][/\ i' \in {i, i + 1}
          /\ Remaining' < Remaining
          /\ Remaining' >= 0
          /\ pc' = "returned" => i = epochs]_vars

\* two epochs of two training batches each have run, four steps were taken
C6_Witness ==
    /\ pc = "returned"
    /\ epochs = 2
    /\ LoaderLen(train_loader) = 2
    /\ optimiser.step = 4

\* C7: once get_dataloaders has run, the training partition is the first
\* n_train (point, weight) pairs and the validation partition the remaining
\* ones, in the original order: the index ranges are disjoint, the sizes sum
\* to N, training followed by validation is the input again, and every
\* point is still beside its own weight.
C7_SplitKeepsOrderAndPairs ==
    pc \in {"loop", "train", "val", "returned"} =>
        LET tx == train_loader.x
            tw == train_loader.w
            vx == val_loader.x
            vw == val_loader.w
            nt == Len(tx)
        IN /\ Len(tw) = nt /\ Len(vw) = Len(vx)
           /\ nt + Len(vx) = Len(samples)
           /\ tx \o vx = ToTensor(samples)
           /\ tw \o vw = ToTensor(weights)
           /\ \A j \in 1..nt :
                 tx[j] = Fin(samples[j]) /\ tw[j] = Fin(weights[j])
           /\ \A j \in 1..Len(vx) :
                 vx[j] = Fin(samples[nt + j]) /\ vw[j] = Fin(weights[nt + j])

\* five samples with distinguishable pairs have been split three to two
C7_Witness ==
    /\ pc = "loop"
    /\ samples = <<0, 1, 1, 0, 1>>
    /\ weights = <<1, 1, 0, 0, 1>>
    /\ Len(train_loader.x) = 3
    /\ Len(val_loader.x) = 2

\* the DataLoader the running pass iterates
Loader == IF pc = "train" THEN train_loader ELSE val_loader

\* C8: in every pass of every epoch the batches yielded so far are the
\* consecutive slices of the partition of batch_size items each, in order
\* (a yielded batch is shorter only if it ends the partition); when the pass
\* is over there are ceil(M / B) of them, which is also len(loader), and
\* their sizes sum to M.
C8_BatchesCoverPartition ==
    pc \in {"train", "val"} =>
        LET M == Len(Loader.x)
            B == Loader.batch_size
            nb == Len(yielded)
        IN /\ Concat([j \in 1..nb |-> yielded[j].x]) = SubSeq(Loader.x, 1, pos)
           /\ Concat([j \in 1..nb |-> yielded[j].w]) = SubSeq(Loader.w, 1, pos)
           /\ \A j \in 1..nb :
                 /\ yielded[j].x = SubSeq(Loader.x, (j - 1) * B + 1, Min(j * B, M))
                 /\ yielded[j].w = SubSeq(Loader.w, (j - 1) * B + 1, Min(j * B, M))
                 /\ Len(yielded[j].x) \in 1..B
                 /\ Len(yielded[j].x) < B => (j = nb /\ pos = M)
           /\ nb > 0 => batch = yielded[nb]
           /\ pos = M =>
                 /\ nb = CeilDiv(M, B)
                 /\ nb = LoaderLen(Loader)

\* the second epoch's training pass over three samples in batches of two
\* has yielded a full batch and a last batch of one
C8_Witness ==
    /\ pc = "train"
    /\ i = 1
    /\ batch_size = 2
    /\ pos = 3
    /\ Len(train_loader.x) = 3
    /\ Len(yielded) = 2
    /\ Len(yielded[2].x) = 1

\* integer value of an integer-valued tensor entry
IntOf(a) == a.n

RECURSIVE IntSum(_)
IntSum(t) == IF t = <<>> THEN 0 ELSE IntSum(SubSeq(t, 1, Len(t) - 1)) + IntOf(t[Len(t)])

RECURSIVE IntDot(_, _)
IntDot(s, t) ==
    IF s = <<>> THEN 0
    ELSE IntDot(SubSeq(s, 1, Len(s) - 1), SubSeq(t, 1, Len(t) - 1))
           + IntOf(s[Len(s)]) * IntOf(t[Len(t)])

\* the entries of t at the positions where w is not zero
RECURSIVE Positive(_, _)
Positive(t, w) ==
    IF t = <<>> THEN <<>>
    ELSE LET r == Positive(SubSeq(t, 1, Len(t) - 1), SubSeq(w, 1, Len(w) - 1))
         IN IF IntOf(w[Len(w)]) = 0 THEN r ELSE Append(r, t[Len(t)])

\* the spec's concrete scenario: points -1, 1, -1, 1 under log_prob = -|x|
Scenario ==
    /\ lf_log_prob = ToTensor(<<-1, -1, -1, -1>>)
    /\ lf_weights = ToTensor(<<1, 1, 0, 0>>)

WeightedLoss ==
    (lf_pc = "done" /\ IntSum(lf_weights) > 0) =>
        /\ IsFinite(lf_ret)
        /\ lf_ret.n * IntSum(lf_weights) = -IntDot(lf_log_prob, lf_weights) * lf_ret.d
        /\ (\A j \in 1..Len(lf_weights) : lf_weights[j] = Fin(1)) =>
              lf_ret.n * Len(lf_log_prob) = -IntSum(lf_log_prob) * lf_ret.d
        /\ lf_ret = loss_fn(Positive(lf_log_prob, lf_weights),
                            Positive(lf_weights, lf_weights))

\* C9 as stated: the weighted-mean formula, and 0 in the spec's scenario.
C9_ScenarioIsZero ==
    /\ WeightedLoss
    /\ (lf_pc = "done" /\ Scenario) => lf_ret = Fin(0)

\* C9 amended: for equal-length tensors with a positive weight sum loss_fn
\* returns -(sum_i l_i * w_i) / (sum_i w_i); with all weights 1 that is the
\* unweighted mean negative log-likelihood; samples of weight 0 contribute
\* nothing; and in the spec's scenario (log-densities -1, -1, -1, -1 with
\* weights 1, 1, 0, 0) the value is 1, not 0.
C9_ScenarioIsOne ==
    /\ WeightedLoss
    /\ (lf_pc = "done" /\ Scenario) => lf_ret = Fin(1)

\* loss_fn has been applied to the scenario
C9_Witness ==
    /\ lf_pc = "done"
    /\ Scenario
    /\ lf_ret = Fin(1)

\* C10: with points and weights of different lengths train goes from its
\* call straight to the error: the loop is never entered, no optimiser step
\* is taken, nothing is recorded, no snapshot exists and nothing is returned.
C10_LengthMismatchRaises ==
    Len(samples) # Len(weights) =>
        /\ pc \in {"call", "raised"}
        /\ optimiser.step = 0
        /\ loss = [train |-> <<>>, val |-> <<>>]
        /\ best_flow = None
        /\ DOMAIN heap = {FlowRef}
        /\ ret = NoRet

\* train has raised on four weights for three points
C10_Witness ==
    /\ pc = "raised"
    /\ Len(samples) = 3
    /\ Len(weights) = 4

\* the mode the live model is in during each pass
ModeOfPhase ==
    /\ pc = "train" => heap[FlowRef].training
    /\ pc = "val" => ~heap[FlowRef].training

PhasesInOrder ==
    /\ (pc = "loop" /\ pc' # pc) => pc' \in {"train", "returned"}
    /\ pc' = "train" => heap'[FlowRef].training
    /\ (pc = "train" /\ pc' # pc) =>
          /\ pc' = "val"
          /\ pos = Len(train_loader.x)
          /\ Len(yielded) = LoaderLen(train_loader)
          /\ ~heap'[FlowRef].training
    /\ (pc = "val" /\ pc' # pc) =>
          /\ pc' = "loop"
          /\ pos = Len(val_loader.x)
          /\ Len(yielded) = LoaderLen(val_loader)
    /\ (pc = "train" /\ Len(yielded') = Len(yielded) + 1) =>
          optimiser'.step = optimiser.step + 1
    /\ optimiser'.step # optimiser.step =>
          /\ pc = "train" /\ pc' = "train"
          /\ heap[FlowRef].training
          /\ Len(yielded') = Len(yielded) + 1
    /\ heap'[FlowRef].params # heap[FlowRef].params =>
          pc = "train" /\ heap[FlowRef].training

\* C11: in every epoch the model is put in training mode, every training
\* batch is processed with one optimiser step each, then the model is put in
\* evaluation mode and every validation batch is evaluated; the optimiser
\* steps only while the model is in training mode, and the validation pass
\* leaves the parameters of the live model as they were.
C11_PhasesInOrder ==
    [](ModeOfPhase) /\ [][PhasesInOrder]_vars

\* the second epoch's validation pass has evaluated a batch in evaluation
\* mode, after two training passes of two steps each
C11_Witness ==
    /\ pc = "val"
    /\ i = 1
    /\ pos > 0
    /\ ~heap[FlowRef].training
    /\ LoaderLen(train_loader) = 2
    /\ optimiser.step = 4

\* the plain mean of a pass's per-batch losses
MeanOfBatches(ls) == Div(Sum(ls), Fin(Len(ls)))

\* the sizes of the batches of a pass over m samples in batches of b
SizesOfBatches(m, b) == [k \in 1..CeilDiv(m, b) |-> Min(b, m - (k - 1) * b)]

\* the mean of a pass's per-batch losses, each weighing as its batch size
SampleWeightedMean(ls, m, b) ==
    Div(Sum([k \in 1..Len(ls) |-> Mul(ls[k], Fin(SizesOfBatches(m, b)[k]))]),
        Fin(m))

\* the training entry of the running epoch has been recorded
TrainRecorded == pc = "val" \/ (pc \in {"loop", "returned"} /\ i >= 1)

\* the validation entry of the last epoch has been recorded
ValRecorded == pc \in {"loop", "returned"} /\ i >= 1

\* C12: the train and val entry recorded for an epoch is the sum of that
\* pass's per-batch losses divided by the number of batches, ceil(M / B),
\* whatever the size of the last batch.
C12_EntryIsPlainMean ==
    /\ TrainRecorded =>
          /\ Len(batch_losses.train) =
                CeilDiv(Len(train_loader.x), train_loader.batch_size)
          /\ loss.train[Len(loss.train)] = MeanOfBatches(batch_losses.train)
    /\ ValRecorded =>
          /\ Len(batch_losses.val) =
                CeilDiv(Len(val_loader.x), val_loader.batch_size)
          /\ loss.val[Len(loss.val)] = MeanOfBatches(batch_losses.val)

\* a training pass over three samples in batches of two and one has been
\* recorded, and its entry is not the mean weighted by batch size
C12_Witness ==
    /\ pc = "val"
    /\ pos = 0
    /\ Len(train_loader.x) = 3
    /\ train_loader.batch_size = 2
    /\ Len(batch_losses.train) = 2
    /\ IsFinite(loss.train[Len(loss.train)])
    /\ loss.train[Len(loss.train)] = MeanOfBatches(batch_losses.train)
    /\ loss.train[Len(loss.train)] #
          SampleWeightedMean(batch_losses.train, 3, 2)

\* train has returned after at least one epoch
ReturnedAfterEpochs == pc = "returned" /\ epochs >= 1

\* epoch e attains the minimum of the validation history h, and no earlier
\* epoch does
FirstMinimum(e, h) ==
    /\ e + 1 \in Comparable(h)
    /\ \A j \in Comparable(h) : ~Less(h[j], h[e + 1])
    /\ \A j \in Comparable(h) : j < e + 1 => Less(h[e + 1], h[j])

\* the returned snapshot is the model as epoch e's training pass left it
SnapshotOfEpoch(e) ==
    /\ ret.best_flow # None
    /\ ret.best_flow # FlowRef
    /\ heap[ret.best_flow].params = after_train[e + 1].params
    /\ after_train[e + 1].step = (e + 1) * LoaderLen(train_loader)

ItemCalls == SelectSeq(requests, LAMBDA q : q.op = "__getitem__")

\* index is a row of the file
IsRow(index) == index \in 0..(Len(h5_file.time_series) - 1)

\* the pair (x[index], y[index]) of the file
RowOf(index) ==
    <<h5_file.time_series[index + 1], h5_file.targets[index + 1]>>

\* C14: for any sequence of __getitem__ calls with row indices i1, i2, ...
\* the k-th call returns (x[ik], y[ik]), both from row ik, and the index the
\* generator holds is the one just sent, never the one of the call before.
C14_ReturnsRowOfIndexSent ==
    \A k \in 1..Len(ItemCalls) :
        (\A j \in 1..k : IsRow(ItemCalls[j].index)) =>
            /\ ItemCalls[k].ret = Returns(RowOf(ItemCalls[k].index))
            /\ k = Len(ItemCalls) =>
                  generators[datasets[Main]._h5_gen].index = ItemCalls[k].index

\* three calls on one dataset have asked for rows 2, 0 and 1 in that order
\* and each has been given its own row
C14_Witness ==
    /\ Len(ItemCalls) = 3
    /\ ItemCalls[1].index = 2
    /\ ItemCalls[2].index = 0
    /\ ItemCalls[3].index = 1
    /\ ItemCalls[1].ret = Returns(<<13, 23>>)
    /\ ItemCalls[2].ret = Returns(<<11, 21>>)
    /\ ItemCalls[3].ret = Returns(<<12, 22>>)

\* the handles opened by the item generator, and by __len__
ItemHandles == {k \in 1..Len(handles) : handles[k].by = "_get_generator"}
LenHandles == {k \in 1..Len(handles) : handles[k].by = "__len__"}

\* C15: the dataset opens its file lazily and once: construction and __len__
\* make no item generator (__len__ opens and closes a handle of its own), the
\* first __getitem__ makes the generator and opens the file, every later
\* __getitem__ uses the same generator and open handle, so an instance has at
\* most one item handle and no dataset operation ever closes it.
C15_LazyOnceNeverClosed ==
    /\ ItemCalls = <<>> =>
          /\ datasets[Main]._h5_gen = None
          /\ generators = <<>>
          /\ ItemHandles = {}
    /\ ItemCalls # <<>> =>
          /\ datasets[Main]._h5_gen = 1
          /\ Len(generators) = 1
          /\ generators[1].record \in ItemHandles
    /\ Cardinality(ItemHandles) <= 1
    /\ \A k \in LenHandles : ~handles[k].open
    /\ \A k \in ItemHandles : handles[k].open

\* the generator worker w's __getitem__ works on, or None
GeneratorOf(w) == datasets[workers[w].dataset]._h5_gen

\* the requests worker w has answered
Served(w) == SelectSeq(requests, LAMBDA q : q.pid = w)

\* worker w has not entered its first __getitem__
NotStarted(w) == Served(w) = <<>> /\ workers[w].pc = "idle"

====
